---- MODULE Spec2Model ----
(***************************************************************************)
(* Product catalog service (src/app.py): the repository abstraction with   *)
(* its two backends, MongoRepository over one unpartitioned collection and *)
(* CosmosRepository over one partitioned container, the seed step that     *)
(* runs when the module is loaded, the product routes, and the image       *)
(* routes over the blob container "product-images".                        *)
(*                                                                         *)
(* A JSON document is a function from field names to tagged values, so an  *)
(* integer id <<"int", 7>> and its string form <<"str", "7">> are          *)
(* different values.  The collection is the sequence of its documents in   *)
(* insertion order; the container is the set of its items.  A file name or *)
(* blob name is the sequence of its characters.                            *)
(***************************************************************************)
EXTENDS Integers, Sequences, FiniteSets, TLC

VARIABLES
    DB_API,      \* backend selected by configuration: "mongodb" or "cosmosdbsql"
    pk_value,    \* partition value each service instance is configured with
    collection,  \* MongoDB collection: documents with their native "_id"
    container,   \* Cosmos container: the items in storage form
    pc,          \* per service instance: position in its start-up / request
    frame,       \* per service instance: locals of the call in progress
    resp,        \* the last handler run and the status it answered with
    overlapped,  \* history: an add or seed_data call has run a step while
                 \* another add or seed_data call was in progress
    issued,      \* history: per scope, the ids add has returned so far
    blobs        \* blob container "product-images": blob name -> content

vars == <<DB_API, pk_value, collection, container, pc, frame, resp, overlapped, issued,
          blobs>>

-----------------------------------------------------------------------------
(* Bounds of the model *)

\* the highest id an add of the model assigns
MaxId == 11

-----------------------------------------------------------------------------
(* JSON values and dict operations *)

IntV(n) == <<"int", n>>
StrV(s) == <<"str", s>>
NumV(s) == <<"num", s>>
OidV(n) == <<"oid", n>>

IsInt(v) == v[1] = "int"

\* {} : the empty dict
EmptyDoc == [k \in {} |-> StrV("")]

\* d with the keys ks removed                      (del d[k], projection)
Without(d, ks) == [k \in DOMAIN d \ ks |-> d[k]]

\* d[k] = v
With(d, k, v) == [x \in DOMAIN d \cup {k} |-> IF x = k THEN v ELSE d[x]]

\* d.update(p)                                      ($set, replace of fields)
Merge(d, p) == [k \in DOMAIN d \cup DOMAIN p |-> IF k \in DOMAIN p THEN p[k] ELSE d[k]]

Min(S) == CHOOSE x \in S : \A y \in S : x <= y
Max(S) == CHOOSE x \in S : \A y \in S : x >= y

\* s without its i-th element
RemoveAt(s, i) == [j \in 1..(Len(s) - 1) |-> IF j < i THEN s[j] ELSE s[j + 1]]

\* s with its i-th element replaced by d
ReplaceAt(s, i, d) == [s EXCEPT ![i] = d]

-----------------------------------------------------------------------------
(* Configuration *)

Repos == {1, 2}

MONGODB == "mongodb"
COSMOSDBSQL == "cosmosdbsql"

\* PRODUCT_DB_PARTITION_KEY
pk_field == "storeId"

\* PRODUCT_DB_PARTITION_VALUE of the instances sharing one container
PkValues == {"default", "bestbuy"}

\* field names k with k.startswith('_'), among the field names of the model
UnderscoreFields == {"_id", "_rid", "_etag", "_ts", "_draft"}
StartsWithUnderscore(k) == k \in UnderscoreFields

-----------------------------------------------------------------------------
(* Seed data *)

Product(id, name, price, description, category, brand) ==
    [id |-> IntV(id), name |-> StrV(name), price |-> NumV(price),
     description |-> StrV(description), category |-> StrV(category),
     brand |-> StrV(brand)]

initial_products == <<
    Product(1, "UltraSlim X1 Laptop", "1299.99", "Experience peak performance...", "Computers & Tablets", "Apex"),
    Product(2, "NoiseGuard Pro Headphones", "349.99", "Immerse yourself...", "Audio", "Aura"),
    Product(3, "Visionary 4K Monitor", "499.99", "See every detail...", "Computer Accessories", "OptiMax"),
    Product(4, "GamerZ Console 5", "499.99", "Next-gen gaming...", "Video Games", "Nexus"),
    Product(5, "SmartWatch Series 7", "399.99", "Track your fitness...", "Wearable Technology", "Vital"),
    Product(6, "BlueBeat Portable Speaker", "129.99", "Take the party anywhere...", "Audio", "Roam"),
    Product(7, "ProTab Air Tablet", "599.99", "Power and portability...", "Computers & Tablets", "Forge"),
    Product(8, "MechKey RGB Keyboard", "149.99", "Dominate the competition...", "Computer Accessories", "Zenith"),
    Product(9, "CineView 65\" OLED TV", "1999.99", "Experience true blacks...", "TV & Home Theater", "Luminos"),
    Product(10, "Bolt External SSD 1TB", "159.99", "Transfer files in seconds...", "Computer Accessories", "Velocity") >>

-----------------------------------------------------------------------------
(* Results of repository calls *)

\* Python's None, and a returned document
None == <<>>
Some(d) == <<d>>

\* str(v) and int(v) of an id; ids are integers (the routes take <int:product_id>,
\* add assigns integers, the seed ids are integers)
Str(v) == IF IsInt(v) THEN StrV(ToString(v[2])) ELSE v
IntOf(v) == IntV(v[2])

-----------------------------------------------------------------------------
(* MongoRepository: the collection's operations as pymongo performs them *)

\* ObjectId() of a document inserted without "_id": a key no stored document has
FreshOid(coll) ==
    OidV(1 + Max({0} \cup {coll[i]["_id"][2] : i \in 1..Len(coll)}))

\* indexes of the documents matching the filter {"id": idv}
MongoMatch(coll, idv) ==
    {i \in 1..Len(coll) : "id" \in DOMAIN coll[i] /\ coll[i]["id"] = idv}

\* slip: find_one without the {'_id': 0} projection
MongoGetOneRaw(coll, idv) ==
    LET I == MongoMatch(coll, idv)
    IN  IF I = {} THEN None ELSE Some(coll[Min(I)])

\* collection.find_one({"id": pid}, {'_id': 0})
MongoGetOne(coll, idv) ==
    LET I == MongoMatch(coll, idv)
    IN  IF I = {} THEN None ELSE Some(Without(coll[Min(I)], {"_id"}))

\* list(collection.find({}, {'_id': 0}))
MongoGetAll(coll) == [i \in 1..Len(coll) |-> Without(coll[i], {"_id"})]

\* collection.find_one(sort=[("id", -1)])
MongoLastProduct(coll) ==
    IF Len(coll) = 0 THEN None
    ELSE LET top == Max({coll[i]["id"][2] : i \in 1..Len(coll)})
         IN  Some(coll[Min(MongoMatch(coll, IntV(top)))])

\* slip: the next id taken from the number of documents
MongoNewIdByCount(coll) == Len(coll) + 1

\* new_id = (last_product['id'] + 1) if last_product else 1
MongoNewId(coll) ==
    LET last_product == MongoLastProduct(coll)
    IN  IF last_product # None THEN last_product[1]["id"][2] + 1 ELSE 1

\* collection.insert_one(product): the document gets its "_id" and is appended
MongoInsertOne(coll, product) ==
    Append(coll, With(product, "_id", FreshOid(coll)))

\* MongoRepository.add, the part after new_id is known
MongoAddInsert(coll, product, new_id) ==
    LET stored == MongoInsertOne(coll, With(product, "id", IntV(new_id)))
    IN  [collection |-> stored,
         ret |-> Some(Without(stored[Len(stored)], {"_id"}))]

\* MongoRepository.add
MongoAdd(coll, product) == MongoAddInsert(coll, product, MongoNewId(coll))

\* slip: update_one with upsert=True
MongoUpdateOneUpsert(coll, idv, product) ==
    LET I == MongoMatch(coll, idv)
    IN  IF I = {} THEN [collection |-> MongoInsertOne(coll, product), matched_count |-> 0]
        ELSE [collection |-> ReplaceAt(coll, Min(I), Merge(coll[Min(I)], product)),
              matched_count |-> 1]

\* collection.update_one({"id": target_id}, {"$set": product})
MongoUpdateOne(coll, idv, product) ==
    LET I == MongoMatch(coll, idv)
    IN  IF I = {} THEN [collection |-> coll, matched_count |-> 0]
        ELSE [collection |-> ReplaceAt(coll, Min(I), Merge(coll[Min(I)], product)),
              matched_count |-> 1]

\* MongoRepository.update
MongoUpdate(coll, product) ==
    LET target_id == product["id"]
        result == MongoUpdateOne(coll, target_id, product)
    IN  IF result.matched_count = 0
        THEN [collection |-> result.collection, ret |-> None]
        ELSE [collection |-> result.collection,
              ret |-> MongoGetOne(result.collection, target_id)]

\* slip: deleted_count > 1 in place of deleted_count > 0
MongoDeleteGreaterOne(coll, idv) ==
    LET I == MongoMatch(coll, idv)
    IN  IF I = {} THEN [collection |-> coll, ret |-> FALSE]
        ELSE [collection |-> RemoveAt(coll, Min(I)), ret |-> FALSE]

\* MongoRepository.delete
MongoDelete(coll, idv) ==
    LET I == MongoMatch(coll, idv)
    IN  IF I = {} THEN [collection |-> coll, ret |-> FALSE]
        ELSE [collection |-> RemoveAt(coll, Min(I)), ret |-> TRUE]

\* MongoRepository.count
MongoCount(coll) == Len(coll)

\* MongoRepository.seed_many: insert_many appends the documents in order
RECURSIVE MongoSeedMany(_, _)
MongoSeedMany(coll, products) ==
    IF products = <<>> THEN coll
    ELSE MongoSeedMany(MongoInsertOne(coll, Head(products)), Tail(products))

-----------------------------------------------------------------------------------------------------------------------------------------------------
(* The Cosmos container: a set of items, at most one per (id, partition value) *)

\* the system properties the service stamps on every stored item
SystemProperties ==
    ("_rid" :> StrV("rid")) @@ ("_etag" :> StrV("etag")) @@ ("_ts" :> IntV(0))

Stamp(body) == Merge(body, SystemProperties)

\* the items of one logical partition
InPartition(cont, pkv) ==
    {d \in cont : pk_field \in DOMAIN d /\ d[pk_field] = StrV(pkv)}

\* the item with this id in this partition (at most one)
CosmosItem(cont, item, pkv) ==
    {d \in InPartition(cont, pkv) : d["id"] = item}

\* container.read_item(item, partition_key): None stands for ResourceNotFoundError
CosmosReadItem(cont, item, pkv) ==
    LET I == CosmosItem(cont, item, pkv)
    IN  IF I = {} THEN None ELSE Some(CHOOSE d \in I : TRUE)

\* create_item that stored a second item under a taken (id, partition value)
CosmosCreateItemNoConflict(cont, body) ==
    [container |-> cont \cup {Stamp(body)}, raised |-> FALSE]

\* container.create_item(body): raises when (id, partition value) is taken
CosmosCreateItem(cont, body) ==
    IF CosmosItem(cont, body["id"], body[pk_field][2]) # {}
    THEN [container |-> cont, raised |-> TRUE]
    ELSE [container |-> cont \cup {Stamp(body)}, raised |-> FALSE]

\* container.upsert_item(body): replaces the item, or creates it
CosmosUpsertItem(cont, body) ==
    (cont \ CosmosItem(cont, body["id"], body[pk_field][2])) \cup {Stamp(body)}

\* slip: the item is looked up by id alone, in every partition
CosmosDeleteItemAnyPartition(cont, item, pkv) ==
    LET I == {d \in cont : d["id"] = item}
    IN  IF I = {} THEN [container |-> cont, raised |-> TRUE]
        ELSE [container |-> cont \ I, raised |-> FALSE]

\* container.delete_item(item, partition_key)
CosmosDeleteItem(cont, item, pkv) ==
    LET I == CosmosItem(cont, item, pkv)
    IN  IF I = {} THEN [container |-> cont, raised |-> TRUE]
        ELSE [container |-> cont \ I, raised |-> FALSE]

\* the items of S listed by ascending int_id; within a partition this is the
\* order of insertion, as add assigns increasing ids
RECURSIVE ByIntId(_)
ByIntId(S) ==
    IF S = {} THEN <<>>
    ELSE LET d == CHOOSE x \in S : \A y \in S : x["int_id"][2] <= y["int_id"][2]
         IN  <<d>> \o ByIntId(S \ {d})

\* SELECT * FROM c WHERE c.<pk_field> = @pk
CosmosQueryAll(cont, pkv) == ByIntId(InPartition(cont, pkv))

\* SELECT TOP 1 c.int_id FROM c WHERE c.<pk_field> = @pk ORDER BY c.int_id DESC
CosmosQueryTop(cont, pkv) ==
    LET I == InPartition(cont, pkv)
    IN  IF I = {} THEN <<>>
        ELSE <<[int_id |-> IntV(Max({d["int_id"][2] : d \in I}))]>>

\* SELECT VALUE COUNT(1) FROM c WHERE c.<pk_field> = @pk
CosmosQueryCount(cont, pkv) == <<Cardinality(InPartition(cont, pkv))>>

-----
(* CosmosRepository *)

\* CosmosRepository._to_cosmos
ToCosmos(pkv, product) ==
    LET p1 == With(product, "id", Str(product["id"]))
        p2 == With(p1, "int_id", IntOf(product["id"]))
    IN  With(p2, pk_field, StrV(pkv))

\* slip: int_id is dropped without restoring id from it
FromCosmosKeepStringId(doc) ==
    LET d == Without(doc, {k \in DOMAIN doc : StartsWithUnderscore(k)})
    IN  Without(d, {"int_id", pk_field})

\* CosmosRepository._from_cosmos
FromCosmos(doc) ==
    LET d  == Without(doc, {k \in DOMAIN doc : StartsWithUnderscore(k)})
        d2 == IF "int_id" \in DOMAIN d
              THEN Without(With(d, "id", d["int_id"]), {"int_id"})
              ELSE d
    IN  IF pk_field \in DOMAIN d2 THEN Without(d2, {pk_field}) ELSE d2

\* [self._from_cosmos(i) for i in items]
FromCosmosAll(items) == [i \in 1..Len(items) |-> FromCosmos(items[i])]

\* CosmosRepository.get_all
CosmosGetAll(cont, pkv) == FromCosmosAll(CosmosQueryAll(cont, pkv))

\* CosmosRepository.get_one
CosmosGetOne(cont, pkv, pid) ==
    LET item == CosmosReadItem(cont, Str(pid), pkv)
    IN  IF item = None THEN None ELSE Some(FromCosmos(item[1]))

\* new_id = (items[0]['int_id'] + 1) if items else 1
CosmosNewId(cont, pkv) ==
    LET items == CosmosQueryTop(cont, pkv)
    IN  IF items # <<>> THEN items[1].int_id[2] + 1 ELSE 1

\* CosmosRepository.add, the part after new_id is known
CosmosAddCreate(cont, pkv, product, new_id) ==
    LET p == With(product, "id", IntV(new_id))
        r == CosmosCreateItem(cont, ToCosmos(pkv, p))
    IN  [container |-> r.container, raised |-> r.raised,
         ret |-> IF r.raised THEN None ELSE Some(p)]

\* CosmosRepository.add
CosmosAdd(cont, pkv, product) ==
    CosmosAddCreate(cont, pkv, product, CosmosNewId(cont, pkv))

\* slip: replace_item, which refuses an item that is not stored, for upsert_item
CosmosUpdateReplaceOnly(cont, pkv, product) ==
    IF CosmosReadItem(cont, Str(product["id"]), pkv) = None
    THEN [container |-> cont, ret |-> None]
    ELSE [container |-> CosmosUpsertItem(cont, ToCosmos(pkv, product)),
          ret |-> Some(product)]

\* CosmosRepository.update, the upsert after the existence check passed
CosmosUpdateUpsert(cont, pkv, product) ==
    [container |-> CosmosUpsertItem(cont, ToCosmos(pkv, product)),
     ret |-> Some(product)]

\* slip: the upsert without the existence check
CosmosUpdateNoCheck(cont, pkv, product) == CosmosUpdateUpsert(cont, pkv, product)

\* CosmosRepository.update
CosmosUpdate(cont, pkv, product) ==
    IF CosmosGetOne(cont, pkv, product["id"]) = None
    THEN [container |-> cont, ret |-> None]
    ELSE CosmosUpdateUpsert(cont, pkv, product)

\* slip: True is returned whether or not delete_item raised
CosmosDeleteAlwaysTrue(cont, pkv, pid) ==
    LET r == CosmosDeleteItem(cont, Str(pid), pkv)
    IN  [container |-> r.container, ret |-> TRUE]

\* CosmosRepository.delete
CosmosDelete(cont, pkv, pid) ==
    LET r == CosmosDeleteItem(cont, Str(pid), pkv)
    IN  [container |-> r.container, ret |-> ~r.raised]

\* CosmosRepository.count
CosmosCount(cont, pkv) ==
    LET items == CosmosQueryCount(cont, pkv)
    IN  IF items # <<>> THEN items[1] ELSE 0

\* CosmosRepository.seed_many: one create_item per product; stops at the first
\* one that raises
\* slip: the loop left after its first create_item
CosmosSeedManyFirstOnly(cont, pkv, products) ==
    IF products = <<>> THEN [container |-> cont, raised |-> FALSE]
    ELSE CosmosCreateItem(cont, ToCosmos(pkv, Head(products)))

RECURSIVE CosmosSeedMany(_, _, _)
CosmosSeedMany(cont, pkv, products) ==
    IF products = <<>> THEN [container |-> cont, raised |-> FALSE]
    ELSE LET r == CosmosCreateItem(cont, ToCosmos(pkv, Head(products)))
         IN  IF r.raised THEN r
             ELSE CosmosSeedMany(r.container, pkv, Tail(products))

-----------------------------------------------------------------------------------------------------------------------------------------------------
(* repo: the repository selected by DB_API, as instance r uses it, on a store  *)
(* given by its collection and its container                                   *)

GetAllIn(coll, cont, r) ==
    IF DB_API = MONGODB THEN MongoGetAll(coll)
    ELSE CosmosGetAll(cont, pk_value[r])

GetOneIn(coll, cont, r, pid) ==
    IF DB_API = MONGODB THEN MongoGetOne(coll, pid)
    ELSE CosmosGetOne(cont, pk_value[r], pid)

CountIn(coll, cont, r) ==
    IF DB_API = MONGODB THEN MongoCount(coll)
    ELSE CosmosCount(cont, pk_value[r])

\* the id the next add of instance r computes
\* an id computation that steps over the ids of the adds in progress
NewIdInReserving(coll, cont, r) ==
    LET read == IF DB_API = MONGODB THEN MongoNewId(coll)
                ELSE CosmosNewId(cont, pk_value[r])
        taken == {frame[o].new_id : o \in {o \in Repos \ {r} : frame[o].op = "add"}}
    IN  IF taken = {} THEN read ELSE Max({read, Max(taken) + 1})

NewIdIn(coll, cont, r) ==
    IF DB_API = MONGODB THEN MongoNewId(coll)
    ELSE CosmosNewId(cont, pk_value[r])

AddIn(coll, cont, r, product) ==
    IF DB_API = MONGODB
    THEN LET m == MongoAdd(coll, product)
         IN  [collection |-> m.collection, container |-> cont,
              ret |-> m.ret, raised |-> FALSE]
    ELSE LET c == CosmosAdd(cont, pk_value[r], product)
         IN  [collection |-> coll, container |-> c.container,
              ret |-> c.ret, raised |-> c.raised]

UpdateIn(coll, cont, r, product) ==
    IF DB_API = MONGODB
    THEN LET m == MongoUpdate(coll, product)
         IN  [collection |-> m.collection, container |-> cont, ret |-> m.ret]
    ELSE LET c == CosmosUpdate(cont, pk_value[r], product)
         IN  [collection |-> coll, container |-> c.container, ret |-> c.ret]

DeleteIn(coll, cont, r, pid) ==
    IF DB_API = MONGODB
    THEN LET m == MongoDelete(coll, pid)
         IN  [collection |-> m.collection, container |-> cont, ret |-> m.ret]
    ELSE LET c == CosmosDelete(cont, pk_value[r], pid)
         IN  [collection |-> coll, container |-> c.container, ret |-> c.ret]

SeedManyIn(coll, cont, r, products) ==
    IF DB_API = MONGODB
    THEN [collection |-> MongoSeedMany(coll, products),
          container |-> cont, raised |-> FALSE]
    ELSE LET c == CosmosSeedMany(cont, pk_value[r], products)
         IN  [collection |-> coll, container |-> c.container,
              raised |-> c.raised]

\* seed_data() on a store: seed_many when count() is 0
SeedDataIn(coll, cont, r) ==
    IF CountIn(coll, cont, r) = 0
    THEN SeedManyIn(coll, cont, r, initial_products)
    ELSE [collection |-> coll, container |-> cont, raised |-> FALSE]

\* the same on the current store
RepoGetAll(r) == GetAllIn(collection, container, r)
RepoGetOne(r, pid) == GetOneIn(collection, container, r, pid)
RepoCount(r) == CountIn(collection, container, r)
RepoNewId(r) == NewIdIn(collection, container, r)
RepoAdd(r, product) == AddIn(collection, container, r, product)
RepoUpdate(r, product) == UpdateIn(collection, container, r, product)
RepoDelete(r, pid) == DeleteIn(collection, container, r, pid)
RepoSeedMany(r, products) == SeedManyIn(collection, container, r, products)

-----
(* Requests offered to the service *)

\* the integer ids of the products instance r sees
StoredIds(r) ==
    LET all == RepoGetAll(r) IN {all[i]["id"][2] : i \in 1..Len(all)}

\* the last seed id, and the first id an add assigns after seeding
LastSeedId == Len(initial_products)
FirstAddedId == LastSeedId + 1

\* an id above every id the model assigns: never stored
MissingId == MaxId + 1

\* ids asked for by GET /<id> and DELETE /<id>: the last seed id, the highest
\* stored id, an id that is not stored
ProbeIds(r) ==
    LET ids == StoredIds(r)
    IN  {LastSeedId, MissingId} \cup (IF ids = {} THEN {} ELSE {Max(ids)})

\* ids named by the bodies of PUT /
UpdateIds == {LastSeedId, MissingId}

\* POST / is offered when the id it assigns is 1 (empty scope) or lies above
\* the seed ids, up to MaxId
AddableIds == {1} \cup (FirstAddedId..MaxId)

\* POST / bodies: a plain product, a product carrying an id of the client's,
\* a product with fields named like the storage-internal ones, and {}
PlainBody == [name |-> StrV("Widget"), price |-> NumV("9.99")]
ClientIdBody == [id |-> IntV(7), name |-> StrV("Gadget"), brand |-> StrV("Acme")]
ReservedBody ==
    ("name" :> StrV("Gizmo")) @@ ("int_id" :> IntV(99))
        @@ (pk_field :> StrV("elsewhere")) @@ ("_draft" :> StrV("yes"))
AddBodies == {PlainBody, ClientIdBody, ReservedBody, EmptyDoc}

\* PUT / bodies: a product with fewer fields than the seed products, and a
\* body without id
UpdateBody(id) == [id |-> IntV(id), name |-> StrV("Renamed"), price |-> NumV("1.00")]
UpdateBodies == {UpdateBody(id) : id \in UpdateIds} \cup {PlainBody}

\* the requests sent to each instance: the first one receives them all, the
\* second one a plain POST and the DELETE of the last seed id
AddBodiesTo(r) == IF r = 1 THEN AddBodies ELSE {PlainBody}
UpdateBodiesTo(r) == IF r = 1 THEN UpdateBodies ELSE {}
DeleteIdsTo(r) == IF r = 1 THEN ProbeIds(r) ELSE {LastSeedId}

-----------------------------------------------------------------------------
(* Text: file names, blob names and form fields are sequences of characters *)

DigitChars == <<"0", "1", "2", "3", "4", "5", "6", "7", "8", "9">>
UpperChars == <<"A", "B", "C", "D", "E", "F", "G", "H", "I", "J", "K", "L", "M",
                "N", "O", "P", "Q", "R", "S", "T", "U", "V", "W", "X", "Y", "Z">>
LowerChars == <<"a", "b", "c", "d", "e", "f", "g", "h", "i", "j", "k", "l", "m",
                "n", "o", "p", "q", "r", "s", "t", "u", "v", "w", "x", "y", "z">>

\* the characters in code order: '.' < digits < upper case < lower case
Alphabet == <<".">> \o DigitChars \o UpperChars \o LowerChars
Rank(c) == CHOOSE i \in 1..Len(Alphabet) : Alphabet[i] = c

\* f"{product_id}" of an integer
RECURSIVE Decimal(_)
Decimal(n) ==
    IF n < 10 THEN <<DigitChars[n + 1]>>
    ELSE Decimal(n \div 10) \o <<DigitChars[(n % 10) + 1]>>

\* str.lower()
LowerChar(c) ==
    IF \E i \in 1..Len(UpperChars) : UpperChars[i] = c
    THEN LowerChars[CHOOSE i \in 1..Len(UpperChars) : UpperChars[i] = c]
    ELSE c
Lower(s) == [i \in 1..Len(s) |-> LowerChar(s[i])]

\* name.startswith(prefix)
StartsWith(name, prefix) ==
    Len(name) >= Len(prefix) /\ SubSeq(name, 1, Len(prefix)) = prefix

\* os.path.splitext(p)[1] of a name without directory part: from the last
\* dot on, unless only dots come before it
SplitextExt(p) ==
    LET dots == {i \in 1..Len(p) : p[i] = "."}
    IN  IF dots = {} THEN <<>>
        ELSE LET i == Max(dots)
             IN  IF \A j \in 1..(i - 1) : p[j] = "." THEN <<>>
                 ELSE SubSeq(p, i, Len(p))

\* a precedes b in the order blobs are listed in (by name, character by character)
RECURSIVE NameBefore(_, _)
NameBefore(a, b) ==
    IF a = <<>> THEN b # <<>>
    ELSE IF b = <<>> THEN FALSE
    ELSE IF Head(a) = Head(b) THEN NameBefore(Tail(a), Tail(b))
    ELSE Rank(Head(a)) < Rank(Head(b))

\* mimetypes.guess_type(name)[0]: by the extension, whatever its case
GuessType(name) ==
    LET ext == Lower(SplitextExt(name))
    IN  IF ext = <<".", "p", "n", "g">> THEN Some("image/png")
        ELSE IF ext = <<".", "j", "p", "g">> THEN Some("image/jpeg")
        ELSE IF ext = <<".", "g", "i", "f">> THEN Some("image/gif")
        ELSE None

-----------------------------------------------------------------------------
(* The blob container "product-images" *)

NoBlobs == [name \in {} |-> ""]

\* container_client.list_blobs(name_starts_with=prefix): the names, in order
RECURSIVE InNameOrder(_)
InNameOrder(names) ==
    IF names = {} THEN <<>>
    ELSE LET first == CHOOSE a \in names : \A b \in names \ {a} : NameBefore(a, b)
         IN  <<first>> \o InNameOrder(names \ {first})
ListBlobs(b, prefix) == InNameOrder({name \in DOMAIN b : StartsWith(name, prefix)})

\* container_client.delete_blob(name) for each name of a list
DeleteBlobs(b, names) ==
    [name \in DOMAIN b \ {names[i] : i \in 1..Len(names)} |-> b[name]]

\* blob_client.upload_blob(file, overwrite=True)
UploadBlob(b, name, data) ==
    [n \in DOMAIN b \cup {name} |-> IF n = name THEN data ELSE b[n]]

-----------------------------------------------------------------------------
(* Responses *)

\* status codes: 200 is what jsonify and ("", 200) answer, 500 what Flask
\* answers when the handler raises
OK == 200
BAD_REQUEST == 400
NOT_FOUND == 404
SERVER_ERROR == 500

\* what the caller of the last handler saw: the route and the status code
Response(op, status) == [op |-> op, status |-> status]

\* issued, once add has returned ret to instance r
Issue(r, ret) ==
    IF ret = None THEN issued
    ELSE [issued EXCEPT ![pk_value[r]] = @ \cup {ret[1]["id"][2]}]

NoFrame == [op |-> "none", body |-> EmptyDoc, new_id |-> 0, next |-> 0]

-----------------------------------------------------------------------------
(* Initial state: the service instances are constructed, the store is new *)

Init ==
    /\ DB_API \in {MONGODB, COSMOSDBSQL}
    /\ pk_value \in [Repos -> PkValues]
    /\ pk_value[1] = "default"
    /\ DB_API = MONGODB => pk_value[2] = "default"
    /\ collection = <<>>
    /\ container = {}
    /\ pc = [r \in Repos |-> "boot"]
    /\ frame = [r \in Repos |-> NoFrame]
    /\ resp = Response("none", 0)
    /\ overlapped = FALSE
    /\ issued = [v \in PkValues |-> {}]
    /\ blobs = NoBlobs

-----------------------------------------------------------------------------
(* The handlers, each as one step *)

\* seed_data(), run when the module is loaded
SeedData(r) ==
    /\ pc[r] = "boot"
    /\ IF RepoCount(r) = 0
       THEN LET s == RepoSeedMany(r, initial_products)
            IN  /\ collection' = s.collection
                /\ container' = s.container
                /\ pc' = [pc EXCEPT ![r] = IF s.raised THEN "crashed" ELSE "ready"]
                /\ resp' = Response("seed", IF s.raised THEN SERVER_ERROR ELSE OK)
       ELSE /\ pc' = [pc EXCEPT ![r] = "ready"]
            /\ resp' = Response("seed", 0)
            /\ UNCHANGED <<collection, container>>
    /\ UNCHANGED <<blobs, DB_API, pk_value, frame, overlapped, issued>>

\* GET /
GetProducts(r) ==
    /\ pc[r] = "ready"
    /\ resp' = Response("get_all", OK)
    /\ UNCHANGED <<blobs, DB_API, pk_value, collection, container, pc, frame, overlapped, issued>>

\* GET /<int:product_id>
GetProduct(r, product_id) ==
    /\ pc[r] = "ready"
    /\ LET product == RepoGetOne(r, IntV(product_id))
       IN  resp' = Response("get_one", IF product # None THEN OK ELSE NOT_FOUND)
    /\ UNCHANGED <<blobs, DB_API, pk_value, collection, container, pc, frame, overlapped, issued>>

\* POST /
AddProduct(r, json) ==
    /\ pc[r] = "ready"
    /\ IF json = EmptyDoc
       THEN /\ resp' = Response("add", BAD_REQUEST)
            /\ UNCHANGED <<collection, container, issued>>
       ELSE /\ RepoNewId(r) \in AddableIds
            /\ LET a == RepoAdd(r, json)
               IN  /\ collection' = a.collection
                   /\ container' = a.container
                   /\ resp' = Response("add", IF a.raised THEN SERVER_ERROR ELSE OK)
                   /\ issued' = Issue(r, a.ret)
    /\ UNCHANGED <<blobs, DB_API, pk_value, pc, frame, overlapped>>

\* PUT /
UpdateProduct(r, json) ==
    /\ pc[r] = "ready"
    /\ IF json = EmptyDoc \/ "id" \notin DOMAIN json
       THEN /\ resp' = Response("update", BAD_REQUEST)
            /\ UNCHANGED <<collection, container>>
       ELSE LET u == RepoUpdate(r, json)
            IN  /\ collection' = u.collection
                /\ container' = u.container
                /\ resp' = Response("update", IF u.ret # None THEN OK ELSE NOT_FOUND)
    /\ UNCHANGED <<blobs, DB_API, pk_value, pc, frame, overlapped, issued>>

\* DELETE /<int:product_id>
DeleteProduct(r, product_id) ==
    /\ pc[r] = "ready"
    /\ LET d == RepoDelete(r, IntV(product_id))
       IN  /\ collection' = d.collection
           /\ container' = d.container
           /\ resp' = Response("delete", IF d.ret THEN OK ELSE NOT_FOUND)
    /\ UNCHANGED <<blobs, DB_API, pk_value, pc, frame, overlapped, issued>>

\* Every call runs to its end before the next one starts
Next ==
    \E r \in Repos :
        \/ SeedData(r)
        \/ GetProducts(r)
        \/ \E product_id \in ProbeIds(r) : GetProduct(r, product_id)
        \/ \E json \in AddBodiesTo(r) : AddProduct(r, json)
        \/ \E json \in UpdateBodiesTo(r) : UpdateProduct(r, json)
        \/ \E product_id \in DeleteIdsTo(r) : DeleteProduct(r, product_id)

Spec == Init /\ [][Next]_vars


-----------------------------------------------------------------------------
(* The same calls, one round trip to the store per step: two service        *)
(* instances (or two request threads of one) share the store and no lock    *)
(* is held between the round trips of a call.                               *)

\* positions inside an add or seed_data call, between its read and its insert
InsertingPcs == {"seeding", "add_insert"}

\* overlapped, after a step of an add or seed_data call of instance r
Overlap(r) == overlapped \/ \E o \in Repos \ {r} : pc[o] \in InsertingPcs

\* seed_data, first round trip: repo.count()
SeedCount(r) ==
    /\ pc[r] = "boot"
    /\ IF RepoCount(r) = 0
       THEN /\ pc' = [pc EXCEPT ![r] = "seeding"]
            /\ frame' = [frame EXCEPT ![r] = [NoFrame EXCEPT !.op = "seed", !.next = 1]]
            /\ overlapped' = Overlap(r)
            /\ UNCHANGED resp
       ELSE /\ pc' = [pc EXCEPT ![r] = "ready"]
            /\ resp' = Response("seed", 0)
            /\ UNCHANGED <<frame, overlapped>>
    /\ UNCHANGED <<blobs, DB_API, pk_value, collection, container, issued>>

\* seed_data, repo.seed_many: insert_many is one round trip, the loop of
\* create_item is one round trip per product and ends the process when one raises
SeedInsert(r) ==
    /\ pc[r] = "seeding"
    /\ overlapped' = Overlap(r)
    /\ IF DB_API = MONGODB
       THEN /\ collection' = MongoSeedMany(collection, initial_products)
            /\ pc' = [pc EXCEPT ![r] = "ready"]
            /\ frame' = [frame EXCEPT ![r] = NoFrame]
            /\ resp' = Response("seed", OK)
            /\ UNCHANGED container
       ELSE LET c == CosmosCreateItem(container,
                         ToCosmos(pk_value[r], initial_products[frame[r].next]))
                last == frame[r].next = Len(initial_products)
            IN  /\ container' = c.container
                /\ pc' = [pc EXCEPT ![r] = IF c.raised THEN "crashed"
                                           ELSE IF last THEN "ready" ELSE "seeding"]
                /\ frame' = [frame EXCEPT ![r] = IF c.raised \/ last THEN NoFrame
                                                 ELSE [@ EXCEPT !.next = @ + 1]]
                /\ resp' = IF c.raised THEN Response("seed", SERVER_ERROR)
                           ELSE IF last THEN Response("seed", OK) ELSE resp
                /\ UNCHANGED collection
    /\ UNCHANGED <<blobs, DB_API, pk_value, issued>>

\* while calls interleave POST / is also offered when the id it assigns is the
\* last seed id (the last seed product was deleted)
ConcAddableIds == AddableIds \cup {LastSeedId}

\* POST /, first round trip of repo.add: the query for the highest id
AddRead(r, json) ==
    /\ pc[r] = "ready"
    /\ IF json = EmptyDoc
       THEN /\ resp' = Response("add", BAD_REQUEST)
            /\ UNCHANGED <<pc, frame, overlapped>>
       ELSE /\ RepoNewId(r) \in ConcAddableIds
            /\ pc' = [pc EXCEPT ![r] = "add_insert"]
            /\ frame' = [frame EXCEPT ![r] =
                            [NoFrame EXCEPT !.op = "add", !.body = json,
                                            !.new_id = RepoNewId(r)]]
            /\ overlapped' = Overlap(r)
            /\ UNCHANGED resp
    /\ UNCHANGED <<blobs, DB_API, pk_value, collection, container, issued>>

\* POST /, second round trip of repo.add: insert_one / create_item
AddInsert(r) ==
    /\ pc[r] = "add_insert"
    /\ LET a == IF DB_API = MONGODB
                THEN LET m == MongoAddInsert(collection, frame[r].body, frame[r].new_id)
                     IN  [collection |-> m.collection, container |-> container,
                          ret |-> m.ret, raised |-> FALSE]
                ELSE LET c == CosmosAddCreate(container, pk_value[r],
                                              frame[r].body, frame[r].new_id)
                     IN  [collection |-> collection, container |-> c.container,
                          ret |-> c.ret, raised |-> c.raised]
       IN  /\ collection' = a.collection
           /\ container' = a.container
           /\ resp' = Response("add", IF a.raised THEN SERVER_ERROR ELSE OK)
           /\ issued' = Issue(r, a.ret)
    /\ pc' = [pc EXCEPT ![r] = "ready"]
    /\ frame' = [frame EXCEPT ![r] = NoFrame]
    /\ overlapped' = Overlap(r)
    /\ UNCHANGED <<blobs, DB_API, pk_value>>

\* PUT /, first round trip of repo.update: update_one / the get_one check
UpdateFirst(r, json) ==
    /\ pc[r] = "ready"
    /\ IF json = EmptyDoc \/ "id" \notin DOMAIN json
       THEN /\ resp' = Response("update", BAD_REQUEST)
            /\ UNCHANGED <<collection, pc, frame>>
       ELSE IF DB_API = MONGODB
       THEN LET result == MongoUpdateOne(collection, json["id"], json)
            IN  /\ collection' = result.collection
                /\ IF result.matched_count = 0
                   THEN /\ resp' = Response("update", NOT_FOUND)
                        /\ UNCHANGED <<pc, frame>>
                   ELSE /\ pc' = [pc EXCEPT ![r] = "update_read"]
                        /\ frame' = [frame EXCEPT ![r] =
                                        [NoFrame EXCEPT !.op = "update", !.body = json]]
                        /\ UNCHANGED resp
       ELSE /\ IF CosmosGetOne(container, pk_value[r], json["id"]) = None
               THEN /\ resp' = Response("update", NOT_FOUND)
                    /\ UNCHANGED <<pc, frame>>
               ELSE /\ pc' = [pc EXCEPT ![r] = "update_upsert"]
                    /\ frame' = [frame EXCEPT ![r] =
                                    [NoFrame EXCEPT !.op = "update", !.body = json]]
                    /\ UNCHANGED resp
            /\ UNCHANGED collection
    /\ UNCHANGED <<blobs, DB_API, pk_value, container, overlapped, issued>>

\* PUT /, second round trip of repo.update: the get_one that is returned /
\* upsert_item
UpdateSecond(r) ==
    /\ pc[r] \in {"update_read", "update_upsert"}
    /\ IF DB_API = MONGODB
       THEN LET ret == MongoGetOne(collection, frame[r].body["id"])
            IN  /\ resp' = Response("update", IF ret # None THEN OK ELSE NOT_FOUND)
                /\ UNCHANGED container
       ELSE LET u == CosmosUpdateUpsert(container, pk_value[r], frame[r].body)
            IN  /\ container' = u.container
                /\ resp' = Response("update", OK)
    /\ pc' = [pc EXCEPT ![r] = "ready"]
    /\ frame' = [frame EXCEPT ![r] = NoFrame]
    /\ UNCHANGED <<blobs, DB_API, pk_value, collection, overlapped, issued>>

\* requests offered while calls interleave: two bodies to post, one to put,
\* the last seed id to delete
ConcAddBodies == {PlainBody, ClientIdBody}
ConcUpdateBodies == {UpdateBody(LastSeedId)}
ConcDeleteIds == {LastSeedId}

\* the calls interleave round trip by round trip; delete is one round trip (the
\* reads, which change nothing in the store, are left to Next)
NextConc ==
    \E r \in Repos :
        \/ SeedCount(r)
        \/ SeedInsert(r)
        \/ \E json \in ConcAddBodies : AddRead(r, json)
        \/ AddInsert(r)
        \/ \E json \in ConcUpdateBodies : UpdateFirst(r, json)
        \/ UpdateSecond(r)
        \/ \E product_id \in ConcDeleteIds : DeleteProduct(r, product_id)

\* the instances work on one scope
InitConc == Init /\ pk_value[2] = pk_value[1]

SpecConc == InitConc /\ [][NextConc]_vars

-----------------------------------------------------------------------------
(* The image routes.  The blob service can fail a call (raises): upload     *)
(* answers 500 to any exception, the image route 404.                       *)

\* no file part in the request (or one with an empty file name)
NoFile == [filename |-> <<>>, data |-> ""]

\* slip: the upload without the removal of the product's old blobs
UploadInKeepOld(b, file, product_id, raises) ==
    IF file.filename = <<>> \/ product_id = <<>>
    THEN [blobs |-> b, status |-> BAD_REQUEST, filename |-> <<>>]
    ELSE IF raises # "none"
    THEN [blobs |-> b, status |-> SERVER_ERROR, filename |-> <<>>]
    ELSE LET lowered == Lower(SplitextExt(file.filename))
             ext == IF lowered = <<>> THEN <<".", "j", "p", "g">> ELSE lowered
         IN  [blobs |-> UploadBlob(b, product_id \o ext, file.data),
              status |-> OK, filename |-> product_id \o ext]

\* POST /upload with form field productId = product_id; raises names the call
\* of the blob service that fails, if one does
UploadIn(b, file, product_id, raises) ==
    IF file.filename = <<>> \/ product_id = <<>>
    THEN [blobs |-> b, status |-> BAD_REQUEST, filename |-> <<>>]
    ELSE IF raises = "connect"
    THEN [blobs |-> b, status |-> SERVER_ERROR, filename |-> <<>>]
    ELSE LET old_blobs == ListBlobs(b, product_id \o <<".">>)
             cleared == DeleteBlobs(b, old_blobs)
             lowered == Lower(SplitextExt(file.filename))
             ext == IF lowered = <<>> THEN <<".", "j", "p", "g">> ELSE lowered
             filename == product_id \o ext
         IN  IF raises = "upload_blob"
             THEN [blobs |-> cleared, status |-> SERVER_ERROR, filename |-> <<>>]
             ELSE [blobs |-> UploadBlob(cleared, filename, file.data),
                   status |-> OK, filename |-> filename]

\* GET /<int:product_id>/image
GetImageIn(b, product_id, raises) ==
    LET found == ListBlobs(b, Decimal(product_id) \o <<".">>)
    IN  IF raises \/ found = <<>>
        THEN [status |-> NOT_FOUND, data |-> "", mimetype |-> ""]
        ELSE LET blob_name == found[1]
                 mime_type == GuessType(blob_name)
             IN  [status |-> OK, data |-> b[blob_name],
                  mimetype |-> IF mime_type # None THEN mime_type[1]
                               ELSE "image/jpeg"]

\* the requests sent to the image routes
FormIds == {<<"1">>, <<"1", "1">>, <<"1", ".", "5">>, <<>>}
ImageIds == {1, 11}
FileNames == {<<"a", ".", "p", "n", "g">>, <<"a", ".", "P", "N", "G">>, <<"a">>}
FileData == {"first", "second"}
Files == {[filename |-> n, data |-> d] : n \in FileNames, d \in FileData} \cup {NoFile}
UploadFailures == {"none", "connect", "upload_blob"}

UploadImage(r, file, product_id, raises) ==
    /\ pc[r] = "ready"
    /\ LET u == UploadIn(blobs, file, product_id, raises)
       IN  /\ blobs' = u.blobs
           /\ resp' = Response("upload", u.status)
    /\ UNCHANGED <<DB_API, pk_value, collection, container, pc, frame, overlapped, issued>>

GetProductImage(r, product_id, raises) ==
    /\ pc[r] = "ready"
    /\ resp' = Response("image", GetImageIn(blobs, product_id, raises).status)
    /\ UNCHANGED <<blobs, DB_API, pk_value, collection, container, pc, frame, overlapped, issued>>

\* the service seeded, then serving its image routes
NextImages ==
    \E r \in Repos :
        \/ SeedData(r)
        \/ \E file \in Files, product_id \in FormIds, raises \in UploadFailures :
               UploadImage(r, file, product_id, raises)
        \/ \E product_id \in ImageIds, raises \in BOOLEAN :
               GetProductImage(r, product_id, raises)

\* the blob container does not depend on the product backend
InitImages == Init /\ DB_API = MONGODB

SpecImages == InitImages /\ [][NextImages]_vars

-----------------------------------------------------------------------------
(* Vocabulary of the properties *)

Ready(r) == pc[r] = "ready"

\* the bodies POST / passes to repo.add, and those PUT / passes to repo.update
PostedBodies == AddBodies \ {EmptyDoc}
\* the ids the properties try: those the requests use, and the first seed id
CheckIds(r) == ProbeIds(r) \cup UpdateIds \cup {1}
PutBodies(r) == {UpdateBody(id) : id \in CheckIds(r)}

\* the fields of the Product data model
ProductFields == {"id", "name", "price", "description", "image", "category", "brand"}
IsAppModel(p) ==
    /\ DOMAIN p \subseteq ProductFields
    /\ "id" \in DOMAIN p
    /\ IsInt(p["id"])

\* field names the partitioned backend reserves for itself
IsReserved(k) == StartsWithUnderscore(k) \/ k = "int_id" \/ k = pk_field

\* the documents a call result a added to the store
NewlyStored(a) ==
    IF DB_API = MONGODB
    THEN {a.collection[i] : i \in (Len(collection) + 1)..Len(a.collection)}
    ELSE a.container \ container

\* the ids of a list of products
IdsOf(products) == {products[i]["id"][2] : i \in 1..Len(products)}

-----------------------------------------------------------------------------
(* C1: for both backends, an add that no other call overlaps returns a      *)
(* product whose id is 1 + the highest id stored in the scope when it is    *)
(* called, or 1 when the scope is empty, whatever id the body carried; the  *)
(* document the add stores carries that id.                                 *)

ExpectedId(r) == IF StoredIds(r) = {} THEN 1 ELSE 1 + Max(StoredIds(r))

C1_AddAssignsMaxPlusOne ==
    \A r \in Repos : Ready(r) =>
        \A body \in PostedBodies :
            LET a == RepoAdd(r, body)
                k == ExpectedId(r)
            IN  /\ ~a.raised
                /\ a.ret # None
                /\ a.ret[1]["id"] = IntV(k)
                /\ Cardinality(NewlyStored(a)) = 1
                /\ \A stored \in NewlyStored(a) :
                       IF DB_API = MONGODB
                       THEN stored["id"] = IntV(k)
                       ELSE /\ stored["int_id"] = IntV(k)
                            /\ stored["id"] = StrV(ToString(k))
                /\ IdsOf(GetAllIn(a.collection, a.container, r)) = StoredIds(r) \cup {k}

\* an add on a scope emptied by deletes has answered, and the product whose
\* body carried id 7 is stored under id 1
C1_Witness ==
    /\ resp = Response("add", OK)
    /\ \E r \in Repos :
        /\ Ready(r)
        /\ RepoGetAll(r) = <<With(ClientIdBody, "id", IntV(1))>>

-----------------------------------------------------------------------------
(* C2: in every reachable state of the store, under any interleaving of      *)
(* seed, add, update and delete calls (overlapping add calls included), no   *)
(* two documents stored in the active collection/partition have the same     *)
(* product id.                                                               *)

NoDuplicateIds ==
    IF DB_API = MONGODB
    THEN \A i, j \in 1..Len(collection) :
             i # j => collection[i]["id"] # collection[j]["id"]
    ELSE \A d, e \in container :
             (d # e /\ d[pk_field] = e[pk_field]) =>
                 (d["id"] # e["id"] /\ d["int_id"] # e["int_id"])

\* the claim as stated: under any interleaving
C2_NoDuplicateIdsEver == NoDuplicateIds

\* as amended: on the partitioned backend under any interleaving; on the
\* document-store backend as long as no add or seed_data call has taken a step
\* while another add or seed_data call was between its read and its insert
C2_NoDuplicateIdsUnlessOverlapped ==
    (DB_API = COSMOSDBSQL \/ ~overlapped) => NoDuplicateIds

\* on the partitioned backend two adds overlapped, both computed the same id,
\* and the second create_item was refused
C2_Witness ==
    /\ DB_API = COSMOSDBSQL
    /\ overlapped
    /\ resp = Response("add", SERVER_ERROR)
    /\ \A r \in Repos : Ready(r) /\ RepoCount(r) = FirstAddedId

-----------------------------------------------------------------------------
(* C3: a product id is never reassigned: in any sequence of non-overlapping  *)
(* add and delete calls, once an add has returned id k no later add returns  *)
(* k again, also after the product with id k has been deleted; the ids       *)
(* returned by successive adds are strictly increasing.                      *)

\* the id the next add returns is above every id an add has returned so far
C3_IdNeverReassigned ==
    \A r \in Repos : Ready(r) =>
        \A body \in PostedBodies :
            LET a == RepoAdd(r, body)
            IN  a.ret # None =>
                    \A k \in issued[pk_value[r]] : a.ret[1]["id"][2] > k

-----------------------------------------------------------------------------
(* C4: update is a full-document replace: for both backends, after update(p) *)
(* succeeds on an existing id, get_one(p.id) returns exactly the fields and  *)
(* values of p, so a field only the previous document had is gone.           *)

C4_UpdateReplacesDocument ==
    \A r \in Repos : Ready(r) =>
        \A p \in PutBodies(r) :
            LET u == RepoUpdate(r, p)
            IN  u.ret # None =>
                    GetOneIn(u.collection, u.container, r, p["id"]) = Some(p)

\* the same, for the partitioned backend alone
C4_CosmosUpdateReplaces == DB_API = COSMOSDBSQL => C4_UpdateReplacesDocument

-----------------------------------------------------------------------------
(* C5: for both backends, an update(p) that no other call overlaps, with an  *)
(* id no stored document has, returns absent, inserts nothing and leaves     *)
(* count() and the contents of get_all() unchanged.                          *)

C5_UpdateMissingIsNoOp ==
    \A r \in Repos : Ready(r) =>
        \A p \in PutBodies(r) :
            RepoGetOne(r, p["id"]) = None =>
                LET u == RepoUpdate(r, p)
                IN  /\ u.ret = None
                    /\ u.collection = collection
                    /\ u.container = container
                    /\ CountIn(u.collection, u.container, r) = RepoCount(r)
                    /\ GetAllIn(u.collection, u.container, r) = RepoGetAll(r)

\* PUT / has answered 404 on a store that holds products
C5_Witness ==
    /\ resp = Response("update", NOT_FOUND)
    /\ \E r \in Repos : Ready(r) /\ RepoCount(r) > 0

-----------------------------------------------------------------------------
(* C6: for both backends, delete(id) on an id some stored document has       *)
(* returns true; get_one(id) right after it yields absent, count() is lower  *)
(* by exactly 1 and every other document is unchanged.                       *)

\* the products of a list whose id is not idv, in order
OthersOf(products, idv) == SelectSeq(products, LAMBDA d : d["id"] # idv)

-----------------------------------------------------------------------------
(* C7: for both backends, delete(id) on an id no stored document has returns *)
(* false, which DELETE /<id> reports as 404, and leaves the stored documents *)
(* and count() unchanged.                                                    *)

C7_DeleteMissingIsNoOp ==
    \A r \in Repos : Ready(r) =>
        \A id \in CheckIds(r) \ StoredIds(r) :
            LET d == RepoDelete(r, IntV(id))
            IN  /\ d.ret = FALSE
                /\ d.collection = collection
                /\ d.container = container
                /\ CountIn(d.collection, d.container, r) = RepoCount(r)
                /\ GetAllIn(d.collection, d.container, r) = RepoGetAll(r)

\* DELETE /<id> has answered 404 on a store that holds products
C7_Witness ==
    /\ resp = Response("delete", NOT_FOUND)
    /\ \E r \in Repos : Ready(r) /\ RepoCount(r) > 0

-----------------------------------------------------------------------------
(* C8: for both backends and every submitted product body, if add(body)      *)
(* returns a product with id k, then get_one(k) called next returns a        *)
(* document equal field for field to the product add returned, with no       *)
(* storage-internal field (native key, shadow id, partition field) present.  *)

\* get_one right after add(body) gives back what add returned: the fields of
\* the body and the id, and no field the storage added
AddThenGetOne(r, body) ==
    LET a == RepoAdd(r, body)
    IN  a.ret # None =>
            LET got == GetOneIn(a.collection, a.container, r, a.ret[1]["id"])
            IN  /\ got = a.ret
                /\ DOMAIN got[1] = DOMAIN body \cup {"id"}
                /\ \A k \in DOMAIN got[1] \ DOMAIN body : ~IsReserved(k)

\* the claim as stated: every submitted body
C8_AnyBody ==
    \A r \in Repos : Ready(r) =>
        \A body \in PostedBodies : AddThenGetOne(r, body)

\* a body none of whose field names starts with '_' or names the shadow id or
\* the partition field
HasNoReservedField(body) == \A k \in DOMAIN body : ~IsReserved(k)

C8_AddThenGetOne ==
    \A r \in Repos : Ready(r) =>
        \A body \in PostedBodies :
            HasNoReservedField(body) => AddThenGetOne(r, body)

\* POST / has answered 200 and GET finds the plain product under the first id
\* after the seeds
C8_Witness ==
    /\ resp = Response("add", OK)
    /\ \E r \in Repos :
        /\ Ready(r)
        /\ RepoGetOne(r, IntV(FirstAddedId)) = Some(With(PlainBody, "id", IntV(FirstAddedId)))

-----------------------------------------------------------------------------
(* C9: for the partitioned backend, _from_cosmos(_to_cosmos(p)) equals p for *)
(* every application-model product p that add or update translate: the id   *)
(* comes back with its value as an integer, every other field is preserved, *)
(* and neither int_id nor the partition field is in the result.             *)

\* the products instance r hands to _to_cosmos: the seeds, a posted body with
\* the id add assigns, a put body
TranslatedProducts(r) ==
    {initial_products[i] : i \in 1..Len(initial_products)}
        \cup {With(b, "id", IntV(RepoNewId(r))) : b \in PostedBodies}
        \cup PutBodies(r)

C9_RoundTrip ==
    DB_API = COSMOSDBSQL =>
        \A r \in Repos : \A p \in TranslatedProducts(r) :
            IsAppModel(p) =>
                LET back == FromCosmos(ToCosmos(pk_value[r], p))
                IN  /\ back = p
                    /\ IsInt(back["id"])
                    /\ "int_id" \notin DOMAIN back
                    /\ pk_field \notin DOMAIN back
                    /\ FromCosmos(Stamp(ToCosmos(pk_value[r], p))) = p

\* on the partitioned backend PUT / has answered 200 and the product reads
\* back as it was put
C9_Witness ==
    /\ DB_API = COSMOSDBSQL
    /\ resp = Response("update", OK)
    /\ \E r \in Repos :
        /\ Ready(r)
        /\ RepoGetOne(r, IntV(LastSeedId)) = Some(UpdateBody(LastSeedId))

-----------------------------------------------------------------------------
(* C10: two partitioned-backend repositories that share one container and    *)
(* are configured with different partition values: get_all, get_one and      *)
(* count of one never return or count a document written through the other,  *)
(* and an add, update or delete (or the seeding) through one leaves the      *)
(* other's documents unchanged.                                              *)

TwoPartitions == DB_API = COSMOSDBSQL /\ pk_value[1] # pk_value[2]

\* the stores instance r can produce with one call
StoresAfterCallOf(r) ==
    IF Ready(r)
    THEN {RepoAdd(r, b).container : b \in PostedBodies}
            \cup {RepoUpdate(r, p).container : p \in PutBodies(r)}
            \cup {RepoDelete(r, IntV(id)).container : id \in CheckIds(r)}
    ELSE IF RepoCount(r) = 0
         THEN {RepoSeedMany(r, initial_products).container}
         ELSE {}

\* what instance o reads from the store with container cont
ViewOf(cont, o) ==
    [all |-> CosmosGetAll(cont, pk_value[o]),
     count |-> CosmosCount(cont, pk_value[o]),
     one |-> [id \in 1..MissingId |-> CosmosGetOne(cont, pk_value[o], IntV(id))]]

\* the items written through instance r: _to_cosmos gave them r's partition value
WrittenThrough(r) == {d \in container : d[pk_field] = StrV(pk_value[r])}

C10_PartitionIsolation ==
    TwoPartitions =>
        \A r \in Repos : \A o \in Repos \ {r} :
            /\ \A cont \in StoresAfterCallOf(r) : ViewOf(cont, o) = ViewOf(container, o)
            /\ RepoCount(o) = Cardinality(WrittenThrough(o))
            /\ RepoGetAll(o) = FromCosmosAll(ByIntId(WrittenThrough(o)))
            /\ \A id \in 1..MissingId :
                   LET item == CosmosReadItem(container, Str(IntV(id)), pk_value[o])
                   IN  item # None => item[1] \in WrittenThrough(o)

\* both instances run on their own partition; one has added a product the
\* other does not see
C10_Witness ==
    /\ TwoPartitions
    /\ resp = Response("add", OK)
    /\ \E r \in Repos : \E o \in Repos \ {r} :
        /\ Ready(r) /\ Ready(o)
        /\ RepoGetOne(r, IntV(FirstAddedId)) # None
        /\ RepoGetOne(o, IntV(FirstAddedId)) = None
        /\ RepoCount(o) = LastSeedId

-----------------------------------------------------------------------------
(* C11: for both backends, starting from an empty scope, after seed_many     *)
(* with the 10 initial products count() is 10, get_all() returns exactly     *)
(* those 10 products, get_one(k) returns the k-th product for every k in     *)
(* 1..10, and the next add returns id 11.                                    *)

SeedProducts == {initial_products[k] : k \in 1..Len(initial_products)}

C11_SeedThenRead ==
    \A r \in Repos : RepoCount(r) = 0 =>
        LET s == RepoSeedMany(r, initial_products)
            all == GetAllIn(s.collection, s.container, r)
        IN  /\ ~s.raised
            /\ CountIn(s.collection, s.container, r) = 10
            /\ Len(all) = 10
            /\ {all[i] : i \in 1..Len(all)} = SeedProducts
            /\ \A k \in 1..10 :
                   GetOneIn(s.collection, s.container, r, IntV(k))
                       = Some(initial_products[k])
            /\ \A body \in PostedBodies :
                   AddIn(s.collection, s.container, r, body).ret
                       = Some(With(body, "id", IntV(11)))

\* seed_data has just seeded the store and an instance reads the 10 products
C11_Witness ==
    /\ resp = Response("seed", OK)
    /\ \E r \in Repos :
        /\ Ready(r)
        /\ RepoCount(r) = 10
        /\ RepoGetAll(r) = initial_products

-----------------------------------------------------------------------------
(* C12: the two backends are interchangeable: started from the same contents *)
(* and given the same sequence of non-overlapping get_all, get_one, add,     *)
(* update, delete and count calls on data-model products, MongoRepository    *)
(* and CosmosRepository return the same result for every call (get_all       *)
(* compared as a set) and hold the same set of application-model products    *)
(* after every call.                                                         *)

\* the products of a list, as a set
SetOf(products) == {products[i] : i \in 1..Len(products)}

\* a container holding, in partition pkv, the products get_all reads from coll
SameContents(coll, pkv) ==
    {Stamp(ToCosmos(pkv, p)) : p \in SetOf(MongoGetAll(coll))}

\* bodies whose fields are fields of the Product data model
DataModelBodies == {b \in PostedBodies : DOMAIN b \subseteq ProductFields}

\* each call gives the same result and leaves the same products on the
\* collection and on a container of the same contents; puts are the bodies
\* given to update
BackendsAgree(r, puts) ==
    LET pkv == pk_value[r]
        cont == SameContents(collection, pkv)
        Same(coll2, cont2) ==
            SetOf(MongoGetAll(coll2)) = SetOf(CosmosGetAll(cont2, pkv))
    IN  /\ Same(collection, cont)
        /\ MongoCount(collection) = CosmosCount(cont, pkv)
        /\ \A id \in CheckIds(r) :
               MongoGetOne(collection, IntV(id)) = CosmosGetOne(cont, pkv, IntV(id))
        /\ \A body \in DataModelBodies :
               LET m == MongoAdd(collection, body)
                   c == CosmosAdd(cont, pkv, body)
               IN  m.ret = c.ret /\ Same(m.collection, c.container)
        /\ \A p \in puts :
               LET m == MongoUpdate(collection, p)
                   c == CosmosUpdate(cont, pkv, p)
               IN  m.ret = c.ret /\ Same(m.collection, c.container)
        /\ \A id \in CheckIds(r) :
               LET m == MongoDelete(collection, IntV(id))
                   c == CosmosDelete(cont, pkv, IntV(id))
               IN  m.ret = c.ret /\ Same(m.collection, c.container)

\* every stored product is a data-model product
HoldsDataModel == \A p \in SetOf(MongoGetAll(collection)) : IsAppModel(p)

C12_BackendsInterchangeable ==
    (DB_API = MONGODB /\ HoldsDataModel) =>
        \A r \in Repos : Ready(r) => BackendsAgree(r, PutBodies(r))

\* the same, update left out
C12_AgreeExceptUpdate ==
    (DB_API = MONGODB /\ HoldsDataModel) =>
        \A r \in Repos : Ready(r) => BackendsAgree(r, {})

-----------------------------------------------------------------------------
(* C13: after a successful upload for product id P with a file whose         *)
(* extension is E (.jpg when the filename has none), the only blob whose     *)
(* name starts with "P." is "P" followed by E holding the uploaded bytes, so *)
(* any blob stored earlier for P under another extension is gone, and        *)
(* GET /P/image returns those bytes with the MIME type inferred from E; this *)
(* holds for every sequence of non-overlapping uploads.                      *)

\* the extension of the uploaded file, as written in its name
ExtensionOf(file) ==
    IF SplitextExt(file.filename) = <<>> THEN <<".", "j", "p", "g">>
    ELSE SplitextExt(file.filename)

\* the MIME type of an extension
MimeOf(E) ==
    IF Lower(E) = <<".", "p", "n", "g">> THEN "image/png" ELSE "image/jpeg"

\* the names of the blobs of product P
BlobsOf(b, P) == {name \in DOMAIN b : StartsWith(name, Decimal(P) \o <<".">>)}

\* after the upload of file for P the one blob of P is P followed by E, and
\* GET /P/image answers with its bytes
UploadedAs(P, file, E) ==
    LET u == UploadIn(blobs, file, Decimal(P), "none")
        name == Decimal(P) \o E
    IN  u.status = OK =>
            /\ BlobsOf(u.blobs, P) = {name}
            /\ u.blobs[name] = file.data
            /\ u.filename = name
            /\ \A other \in DOMAIN u.blobs \ {name} : u.blobs[other] = blobs[other]
            /\ GetImageIn(u.blobs, P, FALSE)
                   = [status |-> OK, data |-> file.data, mimetype |-> MimeOf(E)]

\* the claim as stated: E as the file name has it
C13_UploadReplacesImage ==
    (\E r \in Repos : Ready(r)) =>
        \A P \in ImageIds : \A file \in Files :
            UploadedAs(P, file, ExtensionOf(file))

\* as amended: E in lower case
C13_UploadReplacesImageLowerCase ==
    (\E r \in Repos : Ready(r)) =>
        \A P \in ImageIds : \A file \in Files :
            UploadedAs(P, file, Lower(ExtensionOf(file)))

\* an upload for product 1 has answered 200; 1.png is the one blob of product
\* 1 and the blob of product 11 is still there
C13_Witness ==
    /\ resp = Response("upload", OK)
    /\ BlobsOf(blobs, 1) = {<<"1", ".", "p", "n", "g">>}
    /\ blobs[<<"1", ".", "p", "n", "g">>] = "second"
    /\ BlobsOf(blobs, 11) = {<<"1", "1", ".", "j", "p", "g">>}

-----------------------------------------------------------------------------
(* C14: add is a read-max step followed by an insert step with no lock       *)
(* between them: when two add calls on the same scope both perform their     *)
(* read-max step before either performs its insert, both compute the same    *)
(* new id (this state is reachable in both backends).                        *)

\* both adds are between their read and their insert
BothInserting(r, o) == r # o /\ pc[r] = "add_insert" /\ pc[o] = "add_insert"

\* the claim as stated
C14_BothComputeSameId ==
    \A r, o \in Repos : BothInserting(r, o) => frame[r].new_id = frame[o].new_id

\* as amended: the second read-max step computes the id the first one did when
\* the highest stored id is still the one the first add read
C14_SecondReadSameId ==
    [][\A r, o \in Repos :
          (/\ r # o
           /\ pc[o] = "add_insert"
           /\ frame[o].new_id = ExpectedId(o)
           /\ pc[r] = "ready"
           /\ pc'[r] = "add_insert")
              => (/\ frame'[r].new_id = frame[o].new_id
                  /\ BothInserting(r, o)')]_vars

\* on the partitioned backend two adds have read and neither has inserted:
\* both hold the first id after the seeds
C14_Witness ==
    /\ DB_API = COSMOSDBSQL
    /\ \E r, o \in Repos :
        /\ BothInserting(r, o)
        /\ frame[r].new_id = FirstAddedId
        /\ frame[o].new_id = FirstAddedId
        /\ RepoCount(r) = LastSeedId

\* the same state on the document-store backend
C14_WitnessMongo ==
    /\ DB_API = MONGODB
    /\ \E r, o \in Repos :
        /\ BothInserting(r, o)
        /\ frame[r].new_id = FirstAddedId
        /\ frame[o].new_id = FirstAddedId
        /\ RepoCount(r) = LastSeedId

-----------------------------------------------------------------------------
(* C15: for the partitioned backend, update(p) is an existence check         *)
(* followed by an upsert: if delete(p.id) completes between the check and    *)
(* the upsert, the update still returns p as success and a document with id  *)
(* p.id exists afterwards although delete returned true (the deleted id is   *)
(* resurrected).                                                             *)

\* instance r is between the check and the upsert of update(p), and the
\* product the check found is no longer stored
DeletedSinceCheck(r) ==
    /\ DB_API = COSMOSDBSQL
    /\ pc[r] = "update_upsert"
    /\ CosmosGetOne(container, pk_value[r], frame[r].body["id"]) = None

C15_UpdateResurrects ==
    \A r \in Repos : DeletedSinceCheck(r) =>
        LET p == frame[r].body
            u == CosmosUpdateUpsert(container, pk_value[r], p)
        IN  /\ u.ret = Some(p)
            /\ CosmosGetOne(u.container, pk_value[r], p["id"]) = Some(p)
            /\ CosmosCount(u.container, pk_value[r])
                   = CosmosCount(container, pk_value[r]) + 1

\* DELETE has just answered 200 for the id of an update that has passed its
\* check and not yet upserted
C15_Witness ==
    /\ resp = Response("delete", OK)
    /\ \E r \in Repos :
        /\ DeletedSinceCheck(r)
        /\ frame[r].body = UpdateBody(LastSeedId)
        /\ RepoCount(r) = LastSeedId - 1

-----------------------------------------------------------------------------
(* C16: under any interleaving of update with concurrent add and delete      *)
(* calls, update(p) returns absent (404 to the client) only if no document   *)
(* with id p.id was matched by its write: an update that returns absent has  *)
(* modified no stored document.                                              *)

\* the write of instance r's update matched a document, and the update has
\* yet to return
WriteMatched(r) == pc[r] \in {"update_read", "update_upsert"}

\* what the update of instance r returns when it takes its last step now
UpdateReturns(r) ==
    IF DB_API = MONGODB THEN MongoGetOne(collection, frame[r].body["id"])
    ELSE CosmosUpdateUpsert(container, pk_value[r], frame[r].body).ret

C16_AbsentOnlyIfUnmatched ==
    \A r \in Repos : WriteMatched(r) => UpdateReturns(r) # None

-----------------------------------------------------------------------------
(* C17: the initial products are seeded at most once: seed_data inserts only *)
(* when count() is 0, a second run of seed_data on the seeded store leaves   *)
(* it unchanged, and when two service instances start against the same       *)
(* empty store, each running count() then seed_many, the store ends with     *)
(* exactly the 10 seed products.                                             *)

\* instance r has counted 0 and is to insert, the other instance has started,
\* and no request has been served since
SecondToSeed(r) ==
    /\ pc[r] = "seeding"
    /\ \A o \in Repos \ {r} : pc[o] \in {"ready", "crashed"}
    /\ resp.op = "seed"

\* the products read by r once its seed_many has run to its end
ProductsAfterSeeding(r) ==
    IF DB_API = MONGODB
    THEN MongoGetAll(MongoSeedMany(collection, initial_products))
    ELSE LET rest == SubSeq(initial_products, frame[r].next, Len(initial_products))
         IN  CosmosGetAll(CosmosSeedMany(container, pk_value[r], rest).container,
                          pk_value[r])

C17_SeededOnce ==
    \A r \in Repos :
        /\ RepoCount(r) > 0 =>
               LET s == SeedDataIn(collection, container, r)
               IN  s.collection = collection /\ s.container = container
        /\ SecondToSeed(r) =>
               /\ Len(ProductsAfterSeeding(r)) = 10
               /\ SetOf(ProductsAfterSeeding(r)) = SeedProducts

-----------------------------------------------------------------------------
(* C18: for the document-store backend, update never creates a document      *)
(* under any interleaving with add and delete: its write is a single         *)
(* match-and-set without upsert, so the number of stored documents is the    *)
(* same before and after every update step and an id removed by delete is    *)
(* never brought back by a concurrent update.                                *)

\* the ids of the stored documents, in order
StoredIdList(coll) == [i \in 1..Len(coll) |-> coll[i]["id"]]

C18_UpdateCreatesNothing ==
    [][DB_API = MONGODB =>
          \A r \in Repos :
              ((\E json \in ConcUpdateBodies : UpdateFirst(r, json)) \/ UpdateSecond(r))
                  => (/\ Len(collection') = Len(collection)
                      /\ StoredIdList(collection') = StoredIdList(collection))]_vars

\* on the document-store backend PUT / has answered 404 for the last seed id,
\* which DELETE removed, while the other instance is inside an add; the id is
\* still not stored
C18_Witness ==
    /\ DB_API = MONGODB
    /\ resp = Response("update", NOT_FOUND)
    /\ MongoGetOne(collection, IntV(LastSeedId)) = None
    /\ Len(collection) = LastSeedId - 1
    /\ \E r, o \in Repos : pc[r] = "ready" /\ pc[o] = "add_insert"

====
